---- MODULE Spec2Model ----
(***************************************************************************)
(* GitHub version notifier (github_version_notifier.py and its callers).   *)
(*                                                                         *)
(* Strings are sequences of one-character strings, so that splitting on    *)
(* ".", integer parsing, lstrip and ordinal comparison are computed as     *)
(* Python computes them.  Python's None is modelled by option values: an   *)
(* optional release is the empty sequence or a one-element sequence.       *)
(* Time is counted in whole hours.                                         *)
(***************************************************************************)
EXTENDS Integers, Sequences, FiniteSets, TLC

\* ---------------------------------------------------------------- bounds
MaxTime == 2
MaxReleases == 2
MaxSignals == 2
MaxServed == 1
MaxDialogs == 1
MaxLen == 3
MaxInterval == 2

\* ---------------------------------------------------------------- strings
Digits == {"0", "1", "2", "3", "9"}

\* Unicode code points of the characters of the model's alphabet.
CharCode(c) ==
    CASE c = "." -> 46
      [] c = "0" -> 48
      [] c = "1" -> 49
      [] c = "2" -> 50
      [] c = "3" -> 51
      [] c = "9" -> 57
      [] c = "a" -> 97
      [] c = "b" -> 98
      [] c = "c" -> 99
      [] c = "v" -> 118

DigitValue(c) == CharCode(c) - 48

RECURSIVE StrLess_PrefixNotSmaller(_, _)
\* Mutant of StrLess: a proper prefix is not smaller.
StrLess_PrefixNotSmaller(a, b) ==
    IF b = <<>> THEN FALSE
    ELSE IF a = <<>> THEN FALSE
    ELSE IF Head(a) = Head(b) THEN StrLess_PrefixNotSmaller(Tail(a), Tail(b))
    ELSE CharCode(Head(a)) < CharCode(Head(b))

RECURSIVE StrLess(_, _)
\* Python's str.__lt__: ordinal, lexicographic, a proper prefix is smaller.
StrLess(a, b) ==
    IF b = <<>> THEN FALSE
    ELSE IF a = <<>> THEN TRUE
    ELSE IF Head(a) = Head(b) THEN StrLess(Tail(a), Tail(b))
    ELSE CharCode(Head(a)) < CharCode(Head(b))

RECURSIVE SplitDot(_)
\* str.split('.'): the segments between dots; "" splits into [""].
SplitDot(s) ==
    IF s = <<>> THEN << <<>> >>
    ELSE LET rest == SplitDot(Tail(s)) IN
         IF Head(s) = "." THEN << <<>> >> \o rest
         ELSE << <<Head(s)>> \o Head(rest) >> \o Tail(rest)

\* int(seg) raises ValueError unless seg is a non-empty run of digits
\* (signs, blanks and underscores are not in the model's alphabet).
IntParses(seg) == seg /= <<>> /\ \A i \in 1..Len(seg) : seg[i] \in Digits

RECURSIVE IntValue(_)
IntValue(seg) ==
    IF seg = <<>> THEN 0
    ELSE IntValue(SubSeq(seg, 1, Len(seg) - 1)) * 10 + DigitValue(seg[Len(seg)])

\* version_tuple(v) = tuple(map(int, v.split('.')))
VersionParses(v) ==
    LET segs == SplitDot(v) IN \A i \in 1..Len(segs) : IntParses(segs[i])

version_tuple(v) ==
    LET segs == SplitDot(v) IN [i \in 1..Len(segs) |-> IntValue(segs[i])]

\* Mutant of TupleLess: "<=" for "<".
RECURSIVE TupleLess_OrEqual(_, _)
TupleLess_OrEqual(a, b) ==
    IF a = <<>> THEN TRUE
    ELSE IF b = <<>> THEN FALSE
    ELSE IF Head(a) = Head(b) THEN TupleLess_OrEqual(Tail(a), Tail(b))
    ELSE Head(a) < Head(b)

RECURSIVE TupleLess(_, _)
\* Python's tuple.__lt__ on tuples of ints.
TupleLess(a, b) ==
    IF b = <<>> THEN FALSE
    ELSE IF a = <<>> THEN TRUE
    ELSE IF Head(a) = Head(b) THEN TupleLess(Tail(a), Tail(b))
    ELSE Head(a) < Head(b)

\* Mutant of _compare_versions: the versions are compared as text.
_compare_versions_AsText(version1, version2) ==
    IF StrLess(version1, version2) THEN -1
    ELSE IF StrLess(version2, version1) THEN 1
    ELSE 0

\* GitHubVersionChecker._compare_versions: -1, 0 or 1.
_compare_versions(version1, version2) ==
    IF VersionParses(version1) /\ VersionParses(version2)
    THEN LET v1_tuple == version_tuple(version1)
             v2_tuple == version_tuple(version2)
         IN  IF TupleLess(v1_tuple, v2_tuple) THEN -1
             ELSE IF TupleLess(v2_tuple, v1_tuple) THEN 1
             ELSE 0
    ELSE IF StrLess(version1, version2) THEN -1
         ELSE IF StrLess(version2, version1) THEN 1
         ELSE 0

RECURSIVE lstrip_v(_)
\* str.lstrip('v'): every leading "v" is removed.
lstrip_v(s) ==
    IF s /= <<>> /\ Head(s) = "v" THEN lstrip_v(Tail(s)) ELSE s

\* ---------------------------------------------------------------- values
None == <<>>
Some(x) == <<x>>

V_1_0 == <<"1", ".", "0">>
V_1_1 == <<"1", ".", "1">>
V_1_2 == <<"1", ".", "2">>
V_1_0_0 == <<"1", ".", "0", ".", "0">>
V_1_2_0 == <<"1", ".", "2", ".", "0">>
V_1_2_3 == <<"1", ".", "2", ".", "3">>
V_1_2_10 == <<"1", ".", "2", ".", "1", "0">>

\* _get_current_version: the text of version.txt, or the default "1.0.0".
CurrentVersions == {V_1_1, V_1_0_0}

\* One element of the JSON array the releases endpoint returns.  tag is
\* "str" (a string), "null" (JSON null) or "absent" (no tag_name key).
RawRelease(kind, t, pre, draft) ==
    [tag |-> kind, tag_name |-> t, prerelease |-> pre, draft |-> draft]

RawReleases ==
    { RawRelease("str", <<"v">> \o v, FALSE, FALSE) : v \in {V_1_0, V_1_1, V_1_2} }
    \cup { RawRelease("str", <<"v">> \o V_1_2, TRUE, FALSE),
           RawRelease("str", <<"v">> \o V_1_2, FALSE, TRUE),
           RawRelease("absent", <<>>, FALSE, FALSE),
           RawRelease("null", <<>>, FALSE, FALSE) }

RECURSIVE SeqsUpTo(_, _)
SeqsUpTo(S, n) ==
    IF n = 0 THEN { <<>> }
    ELSE LET shorter == SeqsUpTo(S, n - 1) IN
         shorter \cup { Append(q, x) : q \in { r \in shorter : Len(r) = n - 1 }, x \in S }

\* What requests.get(...).json() hands back: a transport failure (ok = FALSE,
\* a RequestException) or the decoded array of at most n releases.
Responses(n) ==
    { [ok |-> FALSE, body |-> <<>>] }
    \cup { [ok |-> TRUE, body |-> b] : b \in SeqsUpTo(RawReleases, n) }

\* The responses a direct call is tried on, and those the notifier is served.
CheckResponses == Responses(MaxReleases)
ServedResponses == Responses(MaxServed)

OWNER == "candor-cdp"
NAME == "candor-coding-platform"

\* NotificationSettings; auto_download, show_changelog and github_token take
\* no part in the decision and are left out.
SettingsDomain ==
    [ check_interval_hours : {1, 2},
      notify_on_prerelease : BOOLEAN,
      notify_on_draft : BOOLEAN,
      repository_owner : {"", OWNER},
      repository_name : {"", NAME} ]

\* The settings the notifier is run with: releases flagged prerelease or
\* draft are not asked for.
NotifierSettings ==
    { s \in SettingsDomain : ~s.notify_on_prerelease /\ ~s.notify_on_draft }

\* Contents of last_version_check.json: no file, a file json.load or
\* fromisoformat rejects, a JSON object without the last_check key, or a
\* timestamp.
CheckFile(kind, t) == [kind |-> kind, t |-> t]

\* Contents of skipped_versions.json: no file, a file json.load rejects
\* (a list cut short by an interrupted write, a hand edit; items are the
\* versions its text names), or a list of version strings.
SkipFile(kind, items) == [kind |-> kind, items |-> items]

MSG_CONFIG == "Repository configuration missing"
MSG_CONNECT == "Failed to connect to GitHub"
MSG_EXC == "'NoneType' object has no attribute 'lstrip'"
MSG_NEW == "New version available"
MSG_NONE == "No updates available"

\* A signal emitted by the checker thread and queued to the main thread.
Signal(sig, ok, msg, rel) == [sig |-> sig, ok |-> ok, msg |-> msg, rel |-> rel]
error_occurred(msg) == Signal("error_occurred", FALSE, msg, None)
check_completed(ok, msg) == Signal("check_completed", ok, msg, None)
version_found(rel) == Signal("version_found", TRUE, "", Some(rel))

\* ---------------------------------------------------------------- the check
\* _parse_release_info; name, body, published_at and download_url are
\* carried along unread and are left out.  Only called when tag /= "null".
_parse_release_info(release_data) ==
    [ version |-> lstrip_v(release_data.tag_name),
      tag_name |-> release_data.tag_name,
      is_prerelease |-> release_data.prerelease,
      is_draft |-> release_data.draft ]

\* release_data.get('tag_name', '') is None for a JSON null, and
\* None.lstrip raises AttributeError.
ParseRaises(release_data) == release_data.tag = "null"

\* Mutant of SkippedByFlags: the draft test is missing.
SkippedByFlags_NoDraftTest(release_info, s) ==
    release_info.is_prerelease /\ ~s.notify_on_prerelease

\* The two continue statements of the loop of check_for_updates.
SkippedByFlags(release_info, s) ==
    \/ release_info.is_prerelease /\ ~s.notify_on_prerelease
    \/ release_info.is_draft /\ ~s.notify_on_draft

\* Mutant of IsNewer: "<= 0" for "< 0".
IsNewer_OrEqual(current, release_info) ==
    _compare_versions(current, release_info.version) <= 0

\* The test that makes check_for_updates return a release.
IsNewer(current, release_info) ==
    _compare_versions(current, release_info.version) < 0

RECURSIVE ScanReleases_FirstEligible(_, _, _)
\* Mutant of ScanReleases: the first release the flags do not skip decides,
\* and the loop ends there.
ScanReleases_FirstEligible(releases_data, s, current) ==
    IF releases_data = <<>> THEN [kind |-> "none", rel |-> None]
    ELSE IF ParseRaises(Head(releases_data)) THEN [kind |-> "raise", rel |-> None]
    ELSE LET release_info == _parse_release_info(Head(releases_data)) IN
         IF SkippedByFlags(release_info, s)
         THEN ScanReleases_FirstEligible(Tail(releases_data), s, current)
         ELSE IF IsNewer(current, release_info)
         THEN [kind |-> "found", rel |-> Some(release_info)]
         ELSE [kind |-> "none", rel |-> None]

RECURSIVE ScanReleases(_, _, _)
\* The for loop of check_for_updates: "found" with the release returned,
\* "none" when the loop runs out, "raise" when parsing an entry raises.
ScanReleases(releases_data, s, current) ==
    IF releases_data = <<>> THEN [kind |-> "none", rel |-> None]
    ELSE IF ParseRaises(Head(releases_data)) THEN [kind |-> "raise", rel |-> None]
    ELSE LET release_info == _parse_release_info(Head(releases_data)) IN
         IF SkippedByFlags(release_info, s)
         THEN ScanReleases(Tail(releases_data), s, current)
         ELSE IF IsNewer(current, release_info)
         THEN [kind |-> "found", rel |-> Some(release_info)]
         ELSE ScanReleases(Tail(releases_data), s, current)

\* if not owner or not name
ConfigMissing(s) == s.repository_owner = "" \/ s.repository_name = ""

\* Mutant of _should_check_for_updates: ">=" for ">".
_should_check_for_updates_AtBoundary(file, s, t) ==
    IF file.kind = "ts" THEN t - file.t >= s.check_interval_hours ELSE TRUE

\* GitHubVersionChecker._should_check_for_updates
_should_check_for_updates(file, s, t) ==
    IF file.kind = "missing" THEN TRUE
    ELSE IF file.kind = "corrupt" THEN TRUE
    ELSE IF file.kind = "nokey" THEN TRUE   \* the default '2000-01-01'
    ELSE t - file.t > s.check_interval_hours

\* GitHubVersionChecker._update_last_check_time: the new file content.
_update_last_check_time(t) == CheckFile("ts", t)

\* if not releases_data: None (a failed request) and [] are both falsy.
ResponseFalsy(resp) == ~resp.ok \/ resp.body = <<>>

\* What a scan leaves in last_version_check.json.
FileAfterScan(scan, file, t) ==
    IF scan.kind = "raise" THEN file ELSE _update_last_check_time(t)

\* Mutant of FileAfterFalsy: the check time is recorded all the same.
FileAfterFalsy_Recorded(resp, file, t) == _update_last_check_time(t)

\* What a falsy response leaves in last_version_check.json: nothing new,
\* check_for_updates returns before _update_last_check_time.
FileAfterFalsy(resp, file, t) == file

\* A fetch completed: the request was answered and check_for_updates went
\* through the answer without raising.
FetchCompleted(resp, raised) == resp.ok /\ ~raised

\* ---------------------------------------------------------------- settings
\* create_default_settings()
create_default_settings ==
    [ check_interval_hours |-> 24,
      notify_on_prerelease |-> FALSE,
      notify_on_draft |-> FALSE,
      repository_owner |-> "your-username",
      repository_name |-> "your-repo" ]

\* Contents of version_notifier_settings.json: no file, a file json.load
\* rejects, a JSON object with a key NotificationSettings(**data) does not
\* take (TypeError), or the object save_settings_to_file and the set-up
\* script write.
SettingsFile(kind, data) == [kind |-> kind, data |-> data]

\* load_settings_from_file: every Exception is caught and logged, and the
\* defaults are returned.
load_settings_from_file(file) ==
    IF file.kind = "record" THEN file.data ELSE create_default_settings

\* CDPVersionNotifierIntegration._load_settings; the config directory
\* exists whenever the file does.
_load_settings(file) ==
    LET loaded == IF file.kind = "missing" THEN create_default_settings
                  ELSE load_settings_from_file(file) IN
    IF loaded.repository_owner = "" \/ loaded.repository_owner = "your-username"
    THEN [loaded EXCEPT !.repository_owner = OWNER, !.repository_name = NAME]
    ELSE loaded

\* One setattr(self.settings, key, value) of update_settings.
update_settings(s, key, value) == [s EXCEPT ![key] = value]

\* The settings of a configured checker with the given interval.
Configured(interval) ==
    [ create_default_settings EXCEPT !.check_interval_hours = interval,
                                     !.repository_owner = OWNER,
                                     !.repository_name = NAME ]

\* No helper is being called on its own.
NoCall ==
    [ fn |-> "", version1 |-> <<>>, version2 |-> <<>>, tag |-> "str",
      check_file |-> CheckFile("missing", 0), interval |-> 1, t |-> 0,
      skip |-> SkipFile("missing", <<>>),
      sfile |-> SettingsFile("missing", create_default_settings),
      ret |-> 0, version |-> <<>>, found |-> FALSE, raised |-> FALSE,
      flag |-> FALSE, items |-> <<>>, loaded |-> create_default_settings ]

\* ---------------------------------------------------------------- state
VARIABLES
    pyqt,             \* PYQT_AVAILABLE
    settings,         \* the NotificationSettings object notifier and checker share
    current_version,  \* GitHubVersionChecker.current_version
    last_check_file,  \* last_version_check.json
    skip_file,        \* skipped_versions.json
    now,              \* datetime.now(), in hours
    timer_interval,   \* the period the QTimer was started with
    timer_next,       \* when the QTimer next times out
    pc,               \* where the checker thread is in run()
    requests,         \* requests the thread's check sent to the releases endpoint
    signals,          \* signals emitted and not yet delivered to the main thread
    dialogs,          \* the VersionNotificationDialogs that are open
    direct,           \* a synchronous check_for_updates call that is returning
    escaped,          \* the function an exception escaped from, aborting the host
    settings_file,    \* config/version_notifier_settings.json
    call,             \* a call of one helper on its own: arguments and result
    last_fetch,       \* history: when the checker thread's last completed fetch ended
    reminded          \* history: the user has answered "Remind Me Later"

vars == << pyqt, settings, current_version, last_check_file, skip_file, now,
           timer_interval, timer_next, pc, requests, signals, dialogs,
           direct, escaped, settings_file, call, last_fetch, reminded >>

env == << pyqt, current_version, timer_interval, settings_file, call, reminded >>
thread == << pc, requests >>
ui == << dialogs >>

NoResponse == [ok |-> FALSE, body |-> <<>>]
NoDirect ==
    [ called |-> FALSE, sent |-> NoResponse, ret |-> None, raised |-> FALSE,
      requests |-> 0, log |-> "", errors |-> <<>> ]

\* ---------------------------------------------------------------- check_for_updates
\* check_for_updates up to the request: "config" (owner or name missing),
\* "too soon" (the cadence test fails) or "request".
BeforeRequest(s, file, t) ==
    IF ConfigMissing(s) THEN "config"
    ELSE IF ~_should_check_for_updates(file, s, t) THEN "too soon"
    ELSE "request"

\* The error_occurred messages check_for_updates emits; only with PyQt6.
ErrorsEmitted(gui, msgs) == IF gui THEN msgs ELSE <<>>

\* check_for_updates from the response on: its return value, whether it
\* raised, its last log line, the error_occurred messages it emitted and
\* the last_version_check.json it leaves.
AfterResponse(resp, s, current, file, t, gui) ==
    IF ResponseFalsy(resp)
    THEN [ ret |-> None, raised |-> FALSE,
           log |-> IF resp.ok THEN "checking" ELSE "request failed",
           errors |-> IF resp.ok THEN <<>> ELSE ErrorsEmitted(gui, <<MSG_CONNECT>>),
           file |-> FileAfterFalsy(resp, file, t) ]
    ELSE LET sc == ScanReleases(resp.body, s, current) IN
         [ ret |-> sc.rel, raised |-> sc.kind = "raise",
           log |-> IF sc.kind = "found" THEN "new version found"
                   ELSE IF sc.kind = "none" THEN "no new versions found"
                   ELSE "checking",
           errors |-> <<>>,
           file |-> FileAfterScan(sc, file, t) ]

\* GitHubVersionChecker.check_for_updates as one synchronous call.
check_for_updates(s, current, file, t, gui, resp) ==
    LET before == BeforeRequest(s, file, t) IN
    IF before = "config"
    THEN [ ret |-> None, raised |-> FALSE, requests |-> 0, log |-> "config",
           errors |-> ErrorsEmitted(gui, <<MSG_CONFIG>>), file |-> file ]
    ELSE IF before = "too soon"
    THEN [ ret |-> None, raised |-> FALSE, requests |-> 0, log |-> "too soon",
           errors |-> <<>>, file |-> file ]
    ELSE LET r == AfterResponse(resp, s, current, file, t, gui) IN
         [ ret |-> r.ret, raised |-> r.raised, requests |-> 1, log |-> r.log,
           errors |-> r.errors, file |-> r.file ]

\* ---------------------------------------------------------------- set-up script
InitFiles ==
    /\ last_check_file \in { CheckFile("missing", 0), CheckFile("corrupt", 0),
                             CheckFile("nokey", 0), CheckFile("ts", 0) }
    /\ now = 0

InitIdle ==
    /\ pc = "none"
    /\ requests = 0
    /\ signals = <<>>
    /\ dialogs = <<>>
    /\ direct = NoDirect
    /\ escaped = ""
    /\ settings_file = SettingsFile("missing", create_default_settings)
    /\ call = NoCall
    /\ last_fetch = None
    /\ reminded = FALSE

\* The process of setup_version_notifier.py: no notifier, no timer, and
\* nothing connected to the checker's signals, so PyQt6 makes no difference.
InitCheck ==
    /\ pyqt = FALSE
    /\ settings \in SettingsDomain
    /\ current_version \in CurrentVersions
    /\ InitFiles
    /\ skip_file = SkipFile("missing", <<>>)
    /\ timer_interval = 0
    /\ timer_next = 0
    /\ InitIdle

\* test_configuration: a fresh checker and a direct call of
\* check_for_updates, here at the point where the call returns or raises.
DirectCheck ==
    /\ ~direct.called
    /\ \E resp \in IF BeforeRequest(settings, last_check_file, now) = "request"
                    THEN CheckResponses ELSE {NoResponse} :
        \E r \in { check_for_updates(settings, current_version, last_check_file,
                                      now, pyqt, resp) } :
        /\ direct' = [ called |-> TRUE, sent |-> resp, ret |-> r.ret,
                       raised |-> r.raised, requests |-> r.requests,
                       log |-> r.log, errors |-> r.errors ]
        /\ last_check_file' = r.file
    /\ UNCHANGED << env, last_fetch, settings, skip_file, now, timer_next, thread, signals,
                    ui, escaped >>

\* test_configuration prints what it got (or "Test failed") and returns.
DirectReturn ==
    /\ direct.called
    /\ direct' = NoDirect
    /\ UNCHANGED << env, last_fetch, settings, last_check_file, skip_file, now, timer_next,
                    thread, signals, ui, escaped >>

\* Time passes between two runs of the script.
Elapse ==
    /\ ~direct.called
    /\ now < MaxTime
    /\ now' = now + 1
    /\ UNCHANGED << env, last_fetch, settings, last_check_file, skip_file, timer_next,
                    thread, signals, ui, direct, escaped >>

NextCheck ==
    \/ DirectCheck
    \/ DirectReturn
    \/ Elapse

SpecCheck == InitCheck /\ [][NextCheck]_vars

\* ---------------------------------------------------------------- notifier
\* The application with a GitHubVersionNotifier constructed: with PyQt6 its
\* QTimer runs, and no checker thread exists yet.
Init ==
    /\ pyqt \in BOOLEAN
    /\ settings \in NotifierSettings
    /\ current_version = V_1_0_0
    /\ last_check_file \in { CheckFile("missing", 0), CheckFile("ts", 0) }
    /\ now = 0
    /\ skip_file \in { SkipFile("missing", <<>>), SkipFile("corrupt", <<V_1_1>>),
                       SkipFile("list", <<V_1_2>>) }
    /\ timer_interval = IF pyqt THEN settings.check_interval_hours ELSE 0
    /\ timer_next = IF pyqt THEN settings.check_interval_hours ELSE 0
    /\ InitIdle

Alive == escaped = ""

Running == {"started", "requesting"}

\* Mutant of StartThread: isRunning() is not asked.
StartThread_Unguarded ==
    /\ pc' = "started"
    /\ requests' = 0

\* GitHubVersionNotifier.start_version_check with PyQt6: a no-op while the
\* checker thread runs, else a new GitHubVersionChecker is started.
StartThread ==
    IF pc \in Running
    THEN UNCHANGED thread
    ELSE /\ pc' = "started"
         /\ requests' = 0

\* Room in the queue for the two signals a run emits at most.
SignalRoom == pc \in Running \/ Len(signals) + 2 <= MaxSignals

\* start_version_checking at start-up, or check_now from the Help menu.
CheckNow ==
    /\ Alive /\ pyqt /\ SignalRoom
    /\ StartThread
    /\ UNCHANGED << env, last_fetch, settings, last_check_file, skip_file, now, timer_next,
                    signals, ui, direct, escaped >>

\* QTimer.timeout, connected to start_version_check.
TimerTimeout ==
    /\ Alive /\ pyqt /\ SignalRoom
    /\ now >= timer_next
    /\ timer_next' = timer_next + timer_interval
    /\ StartThread
    /\ UNCHANGED << env, last_fetch, settings, last_check_file, skip_file, now,
                    signals, ui, direct, escaped >>

\* start_version_check without PyQt6: checker_thread is still None, so
\* self.checker_thread.check_for_updates() raises AttributeError.
StartHeadless ==
    /\ Alive /\ ~pyqt
    /\ escaped' = "start_version_check"
    /\ UNCHANGED << env, last_fetch, settings, last_check_file, skip_file, now, timer_next,
                    thread, signals, ui, direct >>

\* An hour passes; a timer that is due fires first.
Tick ==
    /\ Alive /\ now < MaxTime
    /\ pyqt => now < timer_next
    /\ now' = now + 1
    /\ UNCHANGED << env, last_fetch, settings, last_check_file, skip_file, timer_next,
                    thread, signals, ui, direct, escaped >>

\* The fields in which two settings records differ.
Changed(s, t) == { f \in DOMAIN s : s[f] /= t[f] }

\* CDPVersionNotifierIntegration.update_settings (the settings dialog's Save
\* or a programmatic call): one setattr on the shared settings object.
UpdateSettings ==
    /\ Alive
    /\ \E s \in NotifierSettings :
        /\ Cardinality(Changed(settings, s)) = 1
        /\ settings' = s
    /\ UNCHANGED << env, last_fetch, last_check_file, skip_file, now, timer_next,
                    thread, signals, ui, direct, escaped >>

\* ---------------------------------------------------------------- checker thread
RECURSIVE ErrorSignals(_)
ErrorSignals(msgs) ==
    IF msgs = <<>> THEN <<>>
    ELSE << error_occurred(Head(msgs)) >> \o ErrorSignals(Tail(msgs))

\* What run() emits around check_for_updates: r is what the call did.
RunEmits(r) ==
    IF r.raised
    THEN << error_occurred(MSG_EXC), check_completed(FALSE, MSG_EXC) >>
    ELSE IF r.ret /= None
    THEN << version_found(r.ret[1]), check_completed(TRUE, MSG_NEW) >>
    ELSE << check_completed(TRUE, MSG_NONE) >>

\* run() up to the request: the configuration test and the cadence test.
RunBegin ==
    /\ Alive /\ pc = "started"
    /\ LET before == BeforeRequest(settings, last_check_file, now) IN
       IF before = "request"
       THEN /\ pc' = "requesting"
            /\ requests' = requests + 1
            /\ UNCHANGED signals
       ELSE LET r == check_for_updates(settings, current_version, last_check_file,
                                       now, pyqt, NoResponse) IN
            /\ signals' = signals \o ErrorSignals(r.errors) \o RunEmits(r)
            /\ pc' = "finished"
            /\ UNCHANGED requests
    /\ UNCHANGED << env, last_fetch, settings, last_check_file, skip_file, now, timer_next,
                    ui, direct, escaped >>

\* _make_github_request returns one of resps; the rest of check_for_updates
\* and of run().
RunResponseWith(resps) ==
    /\ Alive /\ pc = "requesting"
    /\ pc' = "finished"
    /\ \E resp \in resps :
        \E r \in { AfterResponse(resp, settings, current_version, last_check_file,
                                  now, pyqt) } :
        /\ signals' = signals \o ErrorSignals(r.errors) \o RunEmits(r)
        /\ last_check_file' = r.file
        /\ last_fetch' = IF FetchCompleted(resp, r.raised) THEN Some(now)
                          ELSE last_fetch
    /\ UNCHANGED << env, settings, skip_file, now, timer_next, requests,
                    ui, direct, escaped >>

\* The checker thread served any response.
RunResponse == RunResponseWith(ServedResponses)

\* ---------------------------------------------------------------- slots
\* Mutant of SkippedVersions: the versions a file names are read whatever
\* its state.
SkippedVersions_Named(file) == file.items

\* The skip list as _handle_new_version and skip_version read it.
SkippedVersions(file) == IF file.kind = "list" THEN file.items ELSE <<>>

InSeq(x, q) == \E i \in 1..Len(q) : q[i] = x

\* Mutant of ShowsDialog: the skip list is not consulted.
ShowsDialog_Always(release_info, file) == TRUE

\* Whether _handle_new_version opens the dialog for a release.
ShowsDialog(release_info, file) ==
    ~InSeq(release_info.version, SkippedVersions(file))

\* GitHubVersionNotifier._handle_new_version, with PyQt6.
HandleNewVersion ==
    /\ Alive /\ signals /= <<>> /\ Head(signals).sig = "version_found"
    /\ LET release_info == Head(signals).rel[1] IN
       IF ShowsDialog(release_info, skip_file)
       THEN /\ Len(dialogs) < MaxDialogs
            /\ dialogs' = Append(dialogs, release_info)
       ELSE UNCHANGED dialogs
    /\ signals' = Tail(signals)
    /\ UNCHANGED << env, last_fetch, settings, last_check_file, skip_file, now, timer_next,
                    thread, direct, escaped >>

\* GitHubVersionNotifier._handle_check_completed only logs.
HandleCheckCompleted ==
    /\ Alive /\ signals /= <<>> /\ Head(signals).sig = "check_completed"
    /\ signals' = Tail(signals)
    /\ UNCHANGED << env, last_fetch, settings, last_check_file, skip_file, now, timer_next,
                    thread, ui, direct, escaped >>

\* GitHubVersionNotifier._handle_error: the modal "Version Check Error" box
\* with the message as its detailed text, until the user clicks Ok.
HandleError ==
    /\ Alive /\ signals /= <<>> /\ Head(signals).sig = "error_occurred"
    /\ signals' = Tail(signals)
    /\ UNCHANGED << env, last_fetch, settings, last_check_file, skip_file, now, timer_next,
                    thread, ui, direct, escaped >>

\* ---------------------------------------------------------------- dialog
\* VersionNotificationDialog.skip_version: the new skipped_versions.json.
skip_version(file, version) ==
    IF InSeq(version, SkippedVersions(file))
    THEN file
    ELSE SkipFile("list", Append(SkippedVersions(file), version))

\* "Skip This Version" on the dialog on top.
DialogSkip ==
    /\ Alive /\ dialogs /= <<>>
    /\ skip_file' = skip_version(skip_file, dialogs[Len(dialogs)].version)
    /\ dialogs' = SubSeq(dialogs, 1, Len(dialogs) - 1)
    /\ UNCHANGED << env, last_fetch, settings, last_check_file, now, timer_next, thread,
                    signals, direct, escaped >>

\* "Remind Me Later" (accept) or "Download Now" (open the browser, accept).
DialogAccept ==
    /\ Alive /\ dialogs /= <<>>
    /\ dialogs' = SubSeq(dialogs, 1, Len(dialogs) - 1)
    /\ UNCHANGED << env, last_fetch, settings, last_check_file, skip_file, now, timer_next,
                    thread, signals, direct, escaped >>

\* ---------------------------------------------------------------- specification
Next ==
    \/ CheckNow
    \/ TimerTimeout
    \/ StartHeadless
    \/ Tick
    \/ UpdateSettings
    \/ RunBegin
    \/ RunResponse
    \/ HandleNewVersion
    \/ HandleCheckCompleted
    \/ HandleError
    \/ DialogSkip
    \/ DialogAccept

Spec == Init /\ [][Next]_vars

\* ---------------------------------------------------------------- helpers on their own
\* The version strings, tags and file contents the helpers are given.
Alphabet == {"1", "2", ".", "a"}

Examples ==
    { V_1_0_0, V_1_2_0, V_1_2_3, V_1_2_10,
      <<"9">>, <<"1", "0">>, <<"a", "b", "c">>,
      <<"v">> \o V_1_2, <<"v">> \o V_1_2_3, <<"v", "v">> \o V_1_2,
      V_1_2 \o <<"v">> }

Strings == SeqsUpTo(Alphabet, MaxLen) \cup Examples

\* Two version strings (version1 also serves as a tag_name), or a release
\* without a usable tag_name and the current version.
StringCalls ==
    { [NoCall EXCEPT !.version1 = a, !.version2 = b] : a \in Strings, b \in Strings }
    \cup { [NoCall EXCEPT !.tag = k, !.version2 = b] :
              k \in {"absent", "null"}, b \in Strings }

CheckFiles ==
    { CheckFile("missing", 0), CheckFile("corrupt", 0), CheckFile("nokey", 0) }
    \cup { CheckFile("ts", t) : t \in 0..MaxTime }

SkipFiles ==
    { SkipFile("missing", <<>>), SkipFile("corrupt", <<>>),
      SkipFile("corrupt", <<V_1_1>>), SkipFile("list", <<>>),
      SkipFile("list", <<V_1_1>>), SkipFile("list", <<V_1_1, V_1_2>>) }

SettingsFiles ==
    { SettingsFile(k, create_default_settings) : k \in {"missing", "corrupt", "badkeys"} }
    \cup { SettingsFile("record", Configured(i)) : i \in 0..MaxInterval }

FileCalls ==
    { [NoCall EXCEPT !.check_file = f, !.interval = i, !.t = t, !.skip = k,
                     !.sfile = sf] :
        f \in CheckFiles, i \in 1..MaxInterval, t \in 0..MaxTime,
        k \in SkipFiles, sf \in SettingsFiles }

InitHelpers ==
    /\ pyqt = FALSE
    /\ settings = Configured(1)
    /\ current_version = V_1_0_0
    /\ last_check_file = CheckFile("missing", 0)
    /\ skip_file = SkipFile("missing", <<>>)
    /\ now = 0
    /\ timer_interval = 0
    /\ timer_next = 0
    /\ pc = "none"
    /\ requests = 0
    /\ signals = <<>>
    /\ dialogs = <<>>
    /\ direct = NoDirect
    /\ escaped = ""
    /\ settings_file = SettingsFile("missing", create_default_settings)
    /\ last_fetch = None
    /\ reminded = FALSE
    /\ call \in StringCalls \cup FileCalls

rest == << pyqt, settings, current_version, last_check_file, skip_file, now,
          timer_interval, timer_next, pc, requests, signals, dialogs, direct,
          escaped, last_fetch, reminded >>

\* The release entry a call's tag stands for.
CallRelease == RawRelease(call.tag, call.version1, FALSE, FALSE)

\* _compare_versions(version1, version2)
CallCompare ==
    /\ call.fn = ""
    /\ call' = [call EXCEPT !.fn = "compare",
                            !.ret = _compare_versions(call.version1, call.version2)]
    /\ UNCHANGED << rest, settings_file >>

\* _parse_release_info(release_data)
CallParse ==
    /\ call.fn = ""
    /\ call' = IF ParseRaises(CallRelease)
               THEN [call EXCEPT !.fn = "parse", !.raised = TRUE]
               ELSE [call EXCEPT !.fn = "parse",
                                 !.version = _parse_release_info(CallRelease).version]
    /\ UNCHANGED << rest, settings_file >>

\* check_for_updates on an answer holding the one release, with version2
\* as the current version.
CallCheck ==
    /\ call.fn = ""
    /\ LET r == check_for_updates(Configured(1), call.version2,
                                  CheckFile("missing", 0), 0, FALSE,
                                  [ok |-> TRUE, body |-> << CallRelease >>]) IN
       call' = [call EXCEPT !.fn = "check", !.found = r.ret /= None,
                            !.raised = r.raised]
    /\ UNCHANGED << rest, settings_file >>

\* _should_check_for_updates()
CallShouldCheck ==
    /\ call.fn = ""
    /\ call' = [call EXCEPT !.fn = "should_check",
                            !.flag = _should_check_for_updates(
                                         call.check_file, Configured(call.interval), call.t)]
    /\ UNCHANGED << rest, settings_file >>

\* The reading of skipped_versions.json in _handle_new_version.
CallReadSkip ==
    /\ call.fn = ""
    /\ call' = [call EXCEPT !.fn = "read_skip", !.items = SkippedVersions(call.skip)]
    /\ UNCHANGED << rest, settings_file >>

\* load_settings_from_file(file_path)
CallLoadSettings ==
    /\ call.fn = ""
    /\ call' = [call EXCEPT !.fn = "load_settings",
                            !.loaded = load_settings_from_file(call.sfile)]
    /\ UNCHANGED << rest, settings_file >>

\* The call is over; its result is dropped.
CallReturn ==
    /\ call.fn /= ""
    /\ call' = [call EXCEPT !.fn = "", !.ret = 0, !.version = <<>>, !.found = FALSE,
                            !.raised = FALSE, !.flag = FALSE, !.items = <<>>,
                            !.loaded = create_default_settings]
    /\ UNCHANGED << rest, settings_file >>

NextHelpers ==
    \/ CallCompare
    \/ CallParse
    \/ CallCheck
    \/ CallShouldCheck
    \/ CallReadSkip
    \/ CallLoadSettings
    \/ CallReturn

SpecHelpers == InitHelpers /\ [][NextHelpers]_vars

\* ---------------------------------------------------------------- routes to the settings
\* What is typed at "Check interval in hours": nothing, text int() rejects,
\* or an integer.
TypedIntervals ==
    { [kind |-> "empty", n |-> 0], [kind |-> "text", n |-> 0] }
    \cup { [kind |-> "int", n |-> n] : n \in -1..MaxInterval }

\* setup_version_notifier: int(input(...) or "24"), and 24 for a value
\* below 1 or a ValueError.
SetupInterval(typed) ==
    IF typed.kind = "int" THEN (IF typed.n < 1 THEN 24 ELSE typed.n) ELSE 24

\* The values of the dialog's QSpinBox, setRange(1, 168), up to the bound.
SpinRange == 1..MaxInterval

\* The values a caller of update_settings may pass for a key.
Values(key) ==
    CASE key = "check_interval_hours" -> -1..MaxInterval
      [] key \in {"notify_on_prerelease", "notify_on_draft"} -> BOOLEAN
      [] key = "repository_owner" -> {"", OWNER}
      [] key = "repository_name" -> {"", NAME}

others == << pyqt, current_version, last_check_file, skip_file, now,
            timer_interval, timer_next, pc, requests, signals, dialogs, direct,
            escaped, last_fetch, reminded, call >>

\* CDPVersionNotifierIntegration.__init__ with or without a settings file
\* left by an earlier run.
InitSettings ==
    /\ pyqt = TRUE
    /\ settings_file \in { SettingsFile("missing", create_default_settings),
                           SettingsFile("corrupt", create_default_settings) }
    /\ settings = _load_settings(settings_file)
    /\ current_version = V_1_0_0
    /\ last_check_file = CheckFile("missing", 0)
    /\ skip_file = SkipFile("missing", <<>>)
    /\ now = 0
    /\ timer_interval = 0
    /\ timer_next = 0
    /\ pc = "none"
    /\ requests = 0
    /\ signals = <<>>
    /\ dialogs = <<>>
    /\ direct = NoDirect
    /\ escaped = ""
    /\ call = NoCall
    /\ last_fetch = None
    /\ reminded = FALSE

\* setup_version_notifier.py writes the settings file; the application
\* reads it when it next starts.
SetupScript ==
    /\ \E typed \in TypedIntervals, prerelease \in BOOLEAN, draft \in BOOLEAN :
          settings_file' =
              SettingsFile("record",
                  [ check_interval_hours |-> SetupInterval(typed),
                    notify_on_prerelease |-> prerelease,
                    notify_on_draft |-> draft,
                    repository_owner |-> OWNER,
                    repository_name |-> NAME ])
    /\ UNCHANGED << others, settings >>

\* The application starts: CDPVersionNotifierIntegration._load_settings.
StartApplication ==
    /\ settings' = _load_settings(settings_file)
    /\ UNCHANGED << others, settings_file >>

\* Save in the settings dialog: _save_settings_and_close passes the widgets'
\* values to update_settings, which saves the file.
SaveSettingsDialog ==
    /\ \E owner \in Values("repository_owner"), name \in Values("repository_name"),
          interval \in SpinRange, prerelease \in BOOLEAN, draft \in BOOLEAN :
          settings' =
              update_settings(
                update_settings(
                  update_settings(
                    update_settings(
                      update_settings(settings, "repository_owner", owner),
                      "repository_name", name),
                    "check_interval_hours", interval),
                  "notify_on_prerelease", prerelease),
                "notify_on_draft", draft)
    /\ settings_file' = SettingsFile("record", settings')
    /\ UNCHANGED others

\* update_settings(key=value) called by the host application: the value is
\* set as passed and the file saved.
UpdateSettingsCall ==
    /\ \E key \in DOMAIN settings :
          \E value \in Values(key) : settings' = update_settings(settings, key, value)
    /\ settings_file' = SettingsFile("record", settings')
    /\ UNCHANGED others

NextSettings ==
    \/ SetupScript
    \/ StartApplication
    \/ SaveSettingsDialog
    \/ UpdateSettingsCall

SpecSettings == InitSettings /\ [][NextSettings]_vars

\* ---------------------------------------------------------------- a notifier left running
\* The application left running for any length of time, with a complete
\* configuration and a repository whose first release the flags let through
\* is newer than the current version and not in the skip list.
RECURSIVE FirstEligible(_, _)
\* The first release of the array that the loop of check_for_updates does
\* not pass over for its flags; None when there is none or when an entry
\* before it makes _parse_release_info raise.
FirstEligible(releases_data, s) ==
    IF releases_data = <<>> THEN None
    ELSE IF ParseRaises(Head(releases_data)) THEN None
    ELSE LET release_info == _parse_release_info(Head(releases_data)) IN
         IF SkippedByFlags(release_info, s)
         THEN FirstEligible(Tail(releases_data), s)
         ELSE Some(release_info)

\* The first eligible release is newer than current and not skipped.
NewerAndNotSkipped(releases_data, s, current, file) ==
    \E release_info \in { r[1] : r \in { FirstEligible(releases_data, s) } \ {None} } :
        /\ IsNewer(current, release_info)
        /\ ~InSeq(release_info.version, SkippedVersions(file))

\* The settings and the skip lists the notifier is left running with.
LiveSettings == { s \in NotifierSettings : ~ConfigMissing(s) }
LiveSkipFiles == { SkipFile("missing", <<>>), SkipFile("list", <<V_1_2>>) }

\* The fetches that succeed with a skip list: the endpoint answers with
\* such an array.  The interval takes no part in it, and the current
\* version is the default.
Succeeding(file) ==
    { resp \in ServedResponses :
        /\ resp.ok
        /\ NewerAndNotSkipped(resp.body, Configured(1), V_1_0_0, file) }

\* The same by the kind of the skip list the notifier runs with.
SucceededResponses ==
    [ missing |-> Succeeding(SkipFile("missing", <<>>)),
      list |-> Succeeding(SkipFile("list", <<V_1_2>>)) ]

\* What the checker thread is served: a transport failure or a success.
LiveResponses ==
    [ missing |-> { NoResponse } \cup SucceededResponses.missing,
      list |-> { NoResponse } \cup SucceededResponses.list ]

InitLive ==
    /\ pyqt = TRUE
    /\ settings \in LiveSettings
    /\ current_version = V_1_0_0
    /\ last_check_file \in { CheckFile("missing", 0), CheckFile("ts", 0) }
    /\ now = 0
    /\ skip_file \in LiveSkipFiles
    /\ timer_interval = settings.check_interval_hours
    /\ timer_next = settings.check_interval_hours
    /\ InitIdle

\* A time stamp older than this passes the cadence test whatever the
\* interval is.
Horizon == MaxInterval + 1

\* A time stamp after the clock's origin moved on by an hour.
Earlier(t) == IF t - 1 < MaxTime - Horizon THEN MaxTime - Horizon ELSE t - 1

\* An hour passes, any number of times; a timer that is due fires first.
\* Once the clock reads MaxTime its origin moves on with it, and the times
\* kept in the state are counted from the new origin.
TickLive ==
    /\ Alive /\ now < timer_next
    /\ IF now < MaxTime
       THEN /\ now' = now + 1
            /\ UNCHANGED << timer_next, last_check_file, last_fetch >>
       ELSE /\ now' = now
            /\ timer_next' = timer_next - 1
            /\ last_check_file' =
                  IF last_check_file.kind = "ts"
                  THEN CheckFile("ts", Earlier(last_check_file.t))
                  ELSE last_check_file
            /\ last_fetch' = IF last_fetch = None THEN None
                              ELSE Some(Earlier(last_fetch[1]))
    /\ UNCHANGED << env, settings, skip_file, thread, signals, ui, direct, escaped >>

\* The request of the checker thread returns.
RunResponseLive == RunResponseWith(LiveResponses[skip_file.kind])

\* The request of the checker thread succeeds.
RunResponseSucceeds == RunResponseWith(SucceededResponses[skip_file.kind])

\* Mutant of RemindLater: the button is connected to skip_version.
RemindLater_Skips ==
    /\ Alive /\ dialogs /= <<>>
    /\ skip_file' = skip_version(skip_file, dialogs[Len(dialogs)].version)
    /\ dialogs' = SubSeq(dialogs, 1, Len(dialogs) - 1)
    /\ reminded' = TRUE
    /\ UNCHANGED << pyqt, current_version, timer_interval, settings_file, call,
                    last_fetch, settings, last_check_file, now, timer_next,
                    thread, signals, direct, escaped >>

\* "Remind Me Later" on the dialog on top: later_button is connected to
\* accept, which closes the dialog and does nothing else.
RemindLater ==
    /\ Alive /\ dialogs /= <<>>
    /\ dialogs' = SubSeq(dialogs, 1, Len(dialogs) - 1)
    /\ reminded' = TRUE
    /\ UNCHANGED << pyqt, current_version, timer_interval, settings_file, call,
                    last_fetch, settings, last_check_file, skip_file, now,
                    timer_next, thread, signals, direct, escaped >>

NextLive ==
    \/ CheckNow
    \/ TimerTimeout
    \/ TickLive
    \/ RunBegin
    \/ RunResponseLive
    \/ HandleNewVersion
    \/ HandleCheckCompleted
    \/ HandleError
    \/ RemindLater

\* Time passes, the event loop delivers a timeout of the QTimer and every
\* queued signal, and the checker thread runs to its end (the request has
\* a timeout of ten seconds).  The timer's fairness is strong because a
\* full signal queue holds a timeout back for a while.  Nothing is asked
\* of the network, nor of the user, who may leave a dialog open and never
\* press "Check for Updates".
FairLive ==
    /\ WF_vars(TickLive)
    /\ SF_vars(TimerTimeout)
    /\ WF_vars(RunBegin)
    /\ WF_vars(RunResponseLive)
    /\ WF_vars(HandleNewVersion)
    /\ WF_vars(HandleCheckCompleted)
    /\ WF_vars(HandleError)

SpecLive == InitLive /\ [][NextLive]_vars /\ FairLive

\* ================================================================ claims
\* A direct call that sent its request and got the array of releases back.
Fetched == direct.called /\ direct.requests = 1 /\ direct.sent.ok

\* The array of a fetched call holds no entry whose tag_name is null.
WellFormed == \A i \in 1..Len(direct.sent.body) : ~ParseRaises(direct.sent.body[i])

Stable(v) == RawRelease("str", <<"v">> \o v, FALSE, FALSE)
Prerelease(v) == RawRelease("str", <<"v">> \o v, TRUE, FALSE)

\* C1: every release check_for_updates returns compares as newer than the
\* current version (_compare_versions(current, release) = -1); a release
\* whose version equals the current version is never returned.
C1_ReturnedReleaseIsNewer ==
    direct.called /\ direct.ret /= None =>
        /\ _compare_versions(current_version, direct.ret[1].version) = -1
        /\ direct.ret[1].version /= current_version

\* C1 witness: a release was returned from an array that also held a
\* release of exactly the current version.
C1_Witness ==
    /\ Fetched /\ direct.ret /= None
    /\ \E i \in 1..Len(direct.sent.body) :
          direct.sent.body[i] = Stable(current_version)

\* The indices of the fetched array the flags do not skip.
EligibleAt(i) ==
    ~SkippedByFlags(_parse_release_info(direct.sent.body[i]), settings)

NewerAt(i) == IsNewer(current_version, _parse_release_info(direct.sent.body[i]))

Least(S) == CHOOSE i \in S : \A j \in S : i <= j

\* C2 as stated: the first release the flags do not skip decides; if it is
\* not newer than the current version the call returns None, whatever
\* follows it in the array.
C2_FirstEligibleDecides ==
    Fetched /\ WellFormed =>
        LET eligible == { i \in 1..Len(direct.sent.body) : EligibleAt(i) } IN
        eligible /= {} /\ ~NewerAt(Least(eligible)) => direct.ret = None

\* C2 amended: the call returns the first release of the array that the
\* flags do not skip and that is newer than the current version, and None
\* only if the array holds no such release.
C2_FirstEligibleNewerDecides ==
    Fetched /\ WellFormed =>
        LET hits == { i \in 1..Len(direct.sent.body) : EligibleAt(i) /\ NewerAt(i) } IN
        direct.ret = IF hits = {} THEN None
                     ELSE Some(_parse_release_info(direct.sent.body[Least(hits)]))

\* C2 witness: an eligible release that is not newer comes first, an
\* eligible newer one second, and the second is returned.
C2_Witness ==
    /\ Fetched
    /\ current_version = V_1_1
    /\ direct.sent.body = << Stable(V_1_0), Stable(V_1_2) >>
    /\ direct.ret = Some(_parse_release_info(Stable(V_1_2)))

\* C3: the release returned is never a prerelease when notify_on_prerelease
\* is off and never a draft when notify_on_draft is off; from [prerelease
\* 1.2, stable 1.1] with prereleases off and current version 1.0.0 the stable
\* 1.1 is returned; an empty array, or one whose releases are all skipped
\* by the flags, gives None.
C3_FlagsFilter ==
    /\ direct.called /\ direct.ret /= None =>
          /\ direct.ret[1].is_prerelease => settings.notify_on_prerelease
          /\ direct.ret[1].is_draft => settings.notify_on_draft
    /\ ( /\ Fetched
         /\ direct.sent.body = << Prerelease(V_1_2), Stable(V_1_1) >>
         /\ ~settings.notify_on_prerelease
         /\ current_version = V_1_0_0 )
       => direct.ret = Some(_parse_release_info(Stable(V_1_1)))
    /\ ( /\ Fetched
         /\ \A i \in 1..Len(direct.sent.body) :
               \/ direct.sent.body[i].prerelease /\ ~settings.notify_on_prerelease
               \/ direct.sent.body[i].draft /\ ~settings.notify_on_draft )
       => direct.ret = None /\ ~direct.raised

\* C3 witness: the newer prerelease was skipped and the stable release
\* behind it returned.
C3_Witness ==
    /\ Fetched
    /\ direct.sent.body = << Prerelease(V_1_2), Stable(V_1_1) >>
    /\ ~settings.notify_on_prerelease
    /\ direct.ret = Some(_parse_release_info(Stable(V_1_1)))

\* The signals a step appended to the queue.
Emitted == SubSeq(signals', Len(signals) + 1, Len(signals'))

\* A step in which the checker thread's run() ends.
RunEnds == pc \in Running /\ pc' = "finished"

\* A step that is a direct call of check_for_updates.
Calls == ~direct.called /\ direct'.called

\* C4 as stated: a check whose release is in the persisted skip list decides
\* NoUpdate, so run() emits no version_found for a version in the skip list.
C4_SkippedVersionNotReported ==
    [][RunEnds =>
         \A i \in 1..Len(Emitted) :
            Emitted[i].sig = "version_found" =>
               ~InSeq(Emitted[i].rel[1].version, SkippedVersions(skip_file))]_vars

\* C4 amended: with PyQt6, _handle_new_version opens no dialog for a release
\* whose version is in the skip list it reads from skipped_versions.json
\* (check_for_updates and run() do not consult the list).
C4_SkippedVersionOpensNoDialog ==
    [][( /\ signals /= <<>>
         /\ Head(signals).sig = "version_found"
         /\ signals' = Tail(signals)
         /\ InSeq(Head(signals).rel[1].version, SkippedVersions(skip_file)) )
       => dialogs' = dialogs]_vars

\* C4 witness: version_found for a version of the skip list is about to be
\* delivered to _handle_new_version.
C4_Witness ==
    /\ signals /= <<>>
    /\ Head(signals).sig = "version_found"
    /\ skip_file.kind = "list"
    /\ InSeq(Head(signals).rel[1].version, skip_file.items)

\* C5: a check whose request succeeded and that did not raise has written
\* last_check = now, also when the array of releases is empty.
C5_CompletedCheckRecordsTime ==
    Fetched /\ ~direct.raised => last_check_file = CheckFile("ts", now)

\* C6: a failed request leaves last_version_check.json as it was and is the
\* only request of the check, so the cadence test answers as before.
C6_FailedRequestKeepsCadence ==
    [][Calls /\ direct'.requests >= 1 /\ ~direct'.sent.ok =>
         /\ last_check_file' = last_check_file
         /\ direct'.requests = 1
         /\ _should_check_for_updates(last_check_file', settings', now')
               = _should_check_for_updates(last_check_file, settings, now)]_vars

\* C6 witness: the request of a check that was due (last check at 0,
\* interval 1, now 2) failed.
C6_Witness ==
    /\ direct.called /\ direct.requests = 1 /\ ~direct.sent.ok
    /\ last_check_file = CheckFile("ts", 0)
    /\ settings.check_interval_hours = 1
    /\ now = 2

\* C7: with the repository configured, the cadence test lets the check go on
\* to its request exactly when there is no readable timestamp or
\* now - last_check > check_interval_hours; otherwise (also at
\* now - last_check = check_interval_hours) the check is skipped as too soon.
C7_Cadence ==
    [][Calls /\ ~ConfigMissing(settings) =>
         LET due == \/ last_check_file.kind /= "ts"
                    \/ now - last_check_file.t > settings.check_interval_hours
         IN  /\ due => direct'.requests = 1 /\ direct'.log /= "too soon"
             /\ ~due => direct'.requests = 0 /\ direct'.log = "too soon"]_vars

\* C7 witness: a check exactly check_interval_hours after the last one was
\* skipped as too soon.
C7_Witness ==
    /\ direct.called /\ direct.log = "too soon"
    /\ last_check_file.kind = "ts"
    /\ now > 0
    /\ now - last_check_file.t = settings.check_interval_hours

\* C8: with owner or name missing the call sends no request and hands its
\* caller something other than the None, without an exception, that stands
\* for NoUpdate (and for a failed request).
C8_ConfigErrorDistinct ==
    direct.called /\ ConfigMissing(settings) =>
        /\ direct.requests = 0
        /\ ~(direct.ret = None /\ ~direct.raised)

\* C9: a run that emitted error_occurred does not also emit
\* check_completed(True, "No updates available").
C9_FailedRunNotReportedAsNoUpdate ==
    [][RunEnds =>
         ~( /\ \E i \in 1..Len(Emitted) : Emitted[i].sig = "error_occurred"
            /\ \E j \in 1..Len(Emitted) :
                  Emitted[j] = check_completed(TRUE, MSG_NONE) )]_vars

\* C10: no exception escapes start_version_check.
C10_NoExceptionEscapes == escaped = ""

\* C11: _compare_versions(v, v) = 0, and _compare_versions(a, b) = 1 exactly
\* when _compare_versions(b, a) = -1, for every pair of strings: numeric
\* pairs, pairs that take the string fallback, pairs of different segment
\* counts.
C11_ReflexiveAntisymmetric ==
    call.fn = "compare" =>
        /\ call.version1 = call.version2 => call.ret = 0
        /\ call.ret = 1 <=> _compare_versions(call.version2, call.version1) = -1
        /\ call.ret = -1 <=> _compare_versions(call.version2, call.version1) = 1

\* C11 witness: a pair that takes the string fallback, of different segment
\* counts, compared as greater.
C11_Witness ==
    /\ call.fn = "compare"
    /\ call.version1 = <<"a", "b", "c">>
    /\ call.version2 = V_1_2_10
    /\ call.ret = 1

\* C12: when every segment of both versions parses as an integer, the first
\* position at which the two differ decides, by the integer values there:
\* "1.2.3" is less than "1.2.10".
C12_NumericSegmentOrder ==
    ( /\ call.fn = "compare"
      /\ VersionParses(call.version1)
      /\ VersionParses(call.version2) ) =>
        LET t1 == version_tuple(call.version1)
            t2 == version_tuple(call.version2)
            common == IF Len(t1) < Len(t2) THEN Len(t1) ELSE Len(t2)
            differ == { i \in 1..common : t1[i] /= t2[i] }
        IN  /\ differ /= {} =>
                  call.ret = IF t1[Least(differ)] < t2[Least(differ)] THEN -1 ELSE 1
            /\ call.version1 = V_1_2_3 /\ call.version2 = V_1_2_10 => call.ret = -1

\* C12 witness: "1.2.3" compared with "1.2.10" as less.
C12_Witness ==
    /\ call.fn = "compare"
    /\ call.version1 = V_1_2_3
    /\ call.version2 = V_1_2_10
    /\ call.ret = -1

\* A tuple of integers with zeros appended up to length n.
Padded(t, n) == [i \in 1..n |-> IF i <= Len(t) THEN t[i] ELSE 0]

\* C13: numeric versions of different segment counts compare as if the
\* shorter were padded with zero segments, so that "1.2" equals "1.2.0", and
\* a release tagged 1.2.0 is not returned for the current version 1.2.
C13_MissingSegmentsAreZero ==
    /\ ( /\ call.fn = "compare"
         /\ VersionParses(call.version1)
         /\ VersionParses(call.version2) ) =>
           LET t1 == version_tuple(call.version1)
               t2 == version_tuple(call.version2)
               n == IF Len(t1) < Len(t2) THEN Len(t2) ELSE Len(t1)
           IN  call.ret = IF TupleLess(Padded(t1, n), Padded(t2, n)) THEN -1
                          ELSE IF TupleLess(Padded(t2, n), Padded(t1, n)) THEN 1
                          ELSE 0
    /\ ( /\ call.fn = "check"
         /\ call.tag = "str"
         /\ call.version1 = V_1_2_0
         /\ call.version2 = V_1_2 ) => ~call.found

\* a comes before b in the ordinal order of strings: at the first position
\* where they differ a has the smaller code point, or a is a proper prefix
\* of b.
OrdinalLess(a, b) ==
    \E k \in 0..Len(a) :
        /\ k <= Len(b)
        /\ \A i \in 1..k : a[i] = b[i]
        /\ \/ k = Len(a) /\ k < Len(b)
           \/ k < Len(a) /\ k < Len(b) /\ CharCode(a[k + 1]) < CharCode(b[k + 1])

\* C14: _compare_versions returns -1, 0 or 1 for every pair of strings; when
\* a segment of either string does not parse as an integer the result is
\* the ordinal comparison of the two strings as given; a release without a
\* tag_name key gets the version "" and check_for_updates goes through it
\* without raising.
C14_TotalWithStringFallback ==
    /\ call.fn = "compare" =>
          /\ call.ret \in {-1, 0, 1}
          /\ ~(VersionParses(call.version1) /\ VersionParses(call.version2)) =>
                call.ret = IF OrdinalLess(call.version1, call.version2) THEN -1
                           ELSE IF OrdinalLess(call.version2, call.version1) THEN 1
                           ELSE 0
    /\ call.fn = "parse" /\ call.tag = "absent" =>
          ~call.raised /\ call.version = <<>>
    /\ call.fn = "check" /\ call.tag = "absent" =>
          /\ ~call.raised
          /\ call.found = (_compare_versions(call.version2, <<>>) < 0)

\* C14 witness: a check with the current version "abc" went through a
\* release without a tag_name key.
C14_Witness ==
    /\ call.fn = "check"
    /\ call.tag = "absent"
    /\ call.version2 = <<"a", "b", "c">>
    /\ ~call.raised
    /\ ~call.found

NoDuplicates(q) == \A i, j \in 1..Len(q) : q[i] = q[j] => i = j

\* C15: "Skip This Version" leaves in skipped_versions.json every version
\* the file named before, also when the file could not be read, and the
\* version of the dialog, and no version twice.
C15_SkipListAppendOnly ==
    [][( /\ dialogs /= <<>>
         /\ dialogs' = SubSeq(dialogs, 1, Len(dialogs) - 1)
         /\ skip_file' /= skip_file ) =>
           /\ skip_file'.kind = "list"
           /\ \A i \in 1..Len(skip_file.items) :
                 InSeq(skip_file.items[i], skip_file'.items)
           /\ InSeq(dialogs[Len(dialogs)].version, skip_file'.items)
           /\ NoDuplicates(skip_file'.items)]_vars

\* C16: load_settings_from_file returns the default settings for a missing
\* or corrupt settings file; the cadence test answers true for a missing or
\* unreadable last_version_check.json; a missing or unreadable
\* skipped_versions.json is read as the empty list.
C16_LoadingIsFailSoft ==
    /\ call.fn = "load_settings" /\ call.sfile.kind \in {"missing", "corrupt", "badkeys"} =>
          call.loaded = [ check_interval_hours |-> 24,
                          notify_on_prerelease |-> FALSE,
                          notify_on_draft |-> FALSE,
                          repository_owner |-> "your-username",
                          repository_name |-> "your-repo" ]
    /\ call.fn = "should_check" /\ call.check_file.kind \in {"missing", "corrupt"} =>
          call.flag
    /\ call.fn = "read_skip" /\ call.skip.kind \in {"missing", "corrupt"} =>
          call.items = <<>>

\* C16 witness: a skip file that could not be parsed was read as empty,
\* beside a corrupt settings file and a corrupt check file.
C16_Witness ==
    /\ call.fn = "read_skip"
    /\ call.skip = SkipFile("corrupt", <<V_1_1>>)
    /\ call.sfile.kind = "corrupt"
    /\ call.check_file.kind = "corrupt"
    /\ call.items = <<>>

\* C17: while the checker thread runs, start_version_check (from the timer
\* or from check_now) starts no new thread, and the thread sends one request
\* at most: a thread that is fetching is not set back to its start and its
\* count of requests stays at one.
C17_AtMostOneCheck ==
    [][(pc \in Running) =>
         /\ pc = "requesting" => pc' /= "started" /\ requests' = requests
         /\ requests <= requests'
         /\ requests' \in {0, 1}]_vars

\* C17 witness: the timer, having fired before, is due again while the
\* checker thread is fetching.
C17_Witness ==
    /\ pyqt
    /\ pc = "requesting"
    /\ requests = 1
    /\ timer_next > timer_interval
    /\ now >= timer_next

\* The step in which the checker thread sends its request.
Requests == pc = "started" /\ pc' = "requesting"

\* C18: a check for which the cadence test fails sends no request, reports
\* no release and leaves last_version_check.json as it was; and whatever the
\* trigger, a request is sent only more than check_interval_hours after the
\* last fetch that completed.
C18_FetchesKeepInterval ==
    [][/\ ( /\ pc = "started"
            /\ pc' /= pc
            /\ ~ConfigMissing(settings)
            /\ ~_should_check_for_updates(last_check_file, settings, now) ) =>
              /\ requests' = requests
              /\ last_check_file' = last_check_file
              /\ Emitted = << check_completed(TRUE, MSG_NONE) >>
       /\ Requests /\ last_fetch /= None =>
              now - last_fetch[1] > settings.check_interval_hours]_vars

\* C19: the version of a release is its tag_name without its first
\* character when that is "v", and the tag_name itself otherwise; of several
\* leading "v" only the first is removed.
C19_OneLeadingVRemoved ==
    call.fn = "parse" /\ call.tag = "str" =>
        call.version = IF call.version1 /= <<>> /\ Head(call.version1) = "v"
                       THEN Tail(call.version1)
                       ELSE call.version1

\* C20: check_interval_hours of the settings in force is at least 1 after
\* any sequence of set-up script runs, saves of the settings dialog and
\* update_settings calls.
C20_IntervalPositive == settings.check_interval_hours >= 1

\* The step in which the timer, finding no checker thread running, starts
\* one.
TimerStartsCheck ==
    /\ timer_next' /= timer_next
    /\ pc \notin Running
    /\ pc' = "started"

\* C21: once a check of this notifier has completed, every check the timer
\* starts passes the cadence test, so that it goes on to fetch: no timeout
\* of the timer is passed over as too soon since the last check.
C21_TimerCheckPassesCadence ==
    [][( /\ TimerStartsCheck
         /\ last_fetch /= None
         /\ ~ConfigMissing(settings) ) =>
           _should_check_for_updates(last_check_file, settings, now)]_vars

\* The checker thread sends its request.
RequestSent == RunBegin /\ pc' = "requesting"

\* Fetches eventually succeed: if requests are sent again and again, then
\* again and again one of them succeeds.
FetchesSucceed == []<><<RequestSent>>_vars => []<><<RunResponseSucceeds>>_vars

\* C22: in a notifier left running whose fetches eventually succeed,
\* whenever no notification dialog is open one is opened later on: the
\* dialog is shown a first time, and shown again after every "Remind Me
\* Later".
C22_DialogShownAgain == FetchesSucceed => [](dialogs = <<>> => <>(dialogs /= <<>>))

\* The dialog is open again after the user asked to be reminded later.
C22_Witness == reminded /\ dialogs /= <<>>

====
